---- MODULE Spec2Model ----
(***************************************************************************)
(* The datastore of one-time-plex (server/datastore/store.go): a Store     *)
(* wrapping one badger engine handle, a fixed key namespace and the        *)
(* in-memory application secret.  Byte strings are sequences of byte       *)
(* codes (ASCII), the engine is a function from the keys it holds to the   *)
(* values stored under them, and every Store method is one action.         *)
(***************************************************************************)
EXTENDS Integers, Sequences, FiniteSets, TLC

VARIABLES
    db,             \* engine contents: stored key -> stored value
    dbCloseCalls,   \* how many times the engine's Close has been invoked
    userPrefixArr,  \* backing array of the slice s.keys.userPrefix (len 5, cap = Len)
    isClosed,       \* field isClosed of the caller's Store value
    Secret,         \* field Secret of the caller's Store value
    last,           \* the last call: [op, arg, err, ret]
    isVerbose,      \* the package variable isVerbose
    verboseOut,     \* the lines the verbose branches have printed so far
    calls           \* concurrent callers: the call each one is in, and how far

vars == <<db, dbCloseCalls, userPrefixArr, isClosed, Secret, last,
          isVerbose, verboseOut, calls>>

----------------------------------------------------------------------------
(* Bounds of the model.                                                     *)

\* longest batch handed to SaveUsers / DeleteUsers
MaxBatch == 2
\* how many Close calls a behaviour makes
MaxClose == 2

----------------------------------------------------------------------------
(* Key namespace: StoreKeys as InitDataStore fills it in.                   *)

\* "app-secret"
appSecret == <<97, 112, 112, 45, 115, 101, 99, 114, 101, 116>>
\* "plex-token"
plexToken == <<112, 108, 101, 120, 45, 116, 111, 107, 101, 110>>
\* "plex-pin"
plexPin == <<112, 108, 101, 120, 45, 112, 105, 110>>
\* "plex-server"
plexServer == <<112, 108, 101, 120, 45, 115, 101, 114, 118, 101, 114>>
\* a user prefix without its separator: "user"
userPrefixNoDash == <<117, 115, 101, 114>>
\* "user-"
userPrefix == <<117, 115, 101, 114, 45>>
\* "users"
allUsers == <<117, 115, 101, 114, 115>>

(* The capacity of []byte("user-") is not fixed by the language.  The gc   *)
(* toolchain allocates the escaping slice in the 8-byte size class and      *)
(* zeroes the tail (cap 8); an allocation of exactly len bytes (cap 5) is   *)
(* the other outcome a build can produce.                                   *)
PrefixArrays == {userPrefix, userPrefix \o <<0, 0, 0>>}

----------------------------------------------------------------------------
(* Inputs.                                                                  *)

\* "", "1", "2" and an id too long for the engine
EmptyID == <<>>
ID1 == <<49>>
ID2 == <<50>>
(* OversizeID stands for a plexUserID so long that user-<id> exceeds the    *)
(* engine's maximum key size: it does not fit the prefix array either.      *)
OversizeID == <<57, 57, 57, 57>>
IDs == {EmptyID, ID1, ID2, OversizeID}
\* "12": an id that begins with another id
ID12 == <<49, 50>>

NoBytes == <<>>

NewUser(id, revoke) ==
    [PlexUserID |-> id,
     Name |-> <<110>>,
     AssignedMedia |-> [ID |-> <<55>>, Title |-> <<116>>, Status |-> NoBytes],
     StoppingPlayback |-> FALSE,
     IsPlaybackStopped |-> FALSE,
     RevokeAccess |-> revoke,
     IsFriend |-> TRUE]

Users == {NewUser(id, FALSE) : id \in IDs}

\* the zero value of User (var u User)
ZeroUser ==
    [PlexUserID |-> NoBytes,
     Name |-> NoBytes,
     AssignedMedia |-> [ID |-> NoBytes, Title |-> NoBytes, Status |-> NoBytes],
     StoppingPlayback |-> FALSE,
     IsPlaybackStopped |-> FALSE,
     RevokeAccess |-> FALSE,
     IsFriend |-> FALSE]

Servers == {[Name |-> <<115>>, URL |-> <<104>>], [Name |-> <<115>>, URL |-> NoBytes]}
ZeroServer == [Name |-> NoBytes, URL |-> NoBytes]

\* plex.PinResponse, reduced to two of its fields
Pins == {[ID |-> 7, Code |-> <<99>>]}
ZeroPin == [ID |-> 0, Code |-> NoBytes]

\* application secrets: two keys of the cipher's key length, and the empty one
Key1 == <<1, 1>>
Key2 == <<2, 2>>
Secrets == {NoBytes, Key1, Key2}

\* upstream tokens
Tokens == {<<120>>, <<121>>}

(* plexUserIDs that probe the key namespace: "", "s" (user- and s), "1",   *)
(* and the reserved key names themselves                                    *)
IDLetterS == <<115>>
KeyIDs == {EmptyID, IDLetterS, ID1, <<97, 112, 112, 45, 115, 101, 99, 114, 101, 116>>,
           <<112, 108, 101, 120, 45, 116, 111, 107, 101, 110>>,
           <<112, 108, 101, 120, 45, 112, 105, 110>>,
           <<112, 108, 101, 120, 45, 115, 101, 114, 118, 101, 114>>,
           <<117, 115, 101, 114, 115>>}
KeyUsers == {NewUser(id, FALSE) : id \in KeyIDs}

\* sequences over S of length 0..n
SeqsUpTo(S, n) == UNION {[1..k -> S] : k \in 0..n}

----------------------------------------------------------------------------
(* Stored values.  A value is <<format, body>>: raw bytes, the cipher's      *)
(* text representation, or JSON text (an object is the sequence of its      *)
(* <<field name, value>> members in the order json.Marshal writes them).    *)

Raw(bytes) == <<"raw", bytes>>

JsonHas(obj, name) == \E i \in 1..Len(obj) : obj[i][1] = name
\* encoding/json: the last member of that name wins, a missing member leaves
\* the field at its zero value, unknown members are skipped
JsonGet(obj, name, zero) ==
    IF JsonHas(obj, name)
    THEN obj[CHOOSE i \in 1..Len(obj) :
                /\ obj[i][1] = name
                /\ \A j \in (i + 1)..Len(obj) : obj[j][1] # name][2]
    ELSE zero

\* User.Serialize: json.Marshal(u), which cannot fail for this struct
Serialize(u) ==
    [err |-> "nil",
     out |-> <<"json",
               << <<"plexUserID", u.PlexUserID>>,
                  <<"plexUsername", u.Name>>,
                  <<"assignedMedia",
                    << <<"id", u.AssignedMedia.ID>>,
                       <<"title", u.AssignedMedia.Title>>,
                       <<"status", u.AssignedMedia.Status>> >> >>,
                  <<"stoppingPlayback", u.StoppingPlayback>>,
                  <<"playbackIsStopped", u.IsPlaybackStopped>>,
                  <<"revokeAccess", u.RevokeAccess>>,
                  <<"isFriend", u.IsFriend>> >> >>]

UnserializeUser(v) ==
    IF v[1] # "json"
    THEN [err |-> "DecodeError", user |-> ZeroUser]
    ELSE LET o == v[2]
             m == JsonGet(o, "assignedMedia", <<>>)
         IN [err |-> "nil",
             user |-> [PlexUserID |-> JsonGet(o, "plexUserID", NoBytes),
                       Name |-> JsonGet(o, "plexUsername", NoBytes),
                       AssignedMedia |-> [ID |-> JsonGet(m, "id", NoBytes),
                                          Title |-> JsonGet(m, "title", NoBytes),
                                          Status |-> JsonGet(m, "status", NoBytes)],
                       StoppingPlayback |-> JsonGet(o, "stoppingPlayback", FALSE),
                       IsPlaybackStopped |-> JsonGet(o, "playbackIsStopped", FALSE),
                       RevokeAccess |-> JsonGet(o, "revokeAccess", FALSE),
                       IsFriend |-> JsonGet(o, "isFriend", FALSE)]]

\* Server.Serialize
SerializeServer(s) ==
    [err |-> "nil",
     out |-> <<"json", << <<"name", s.Name>>, <<"url", s.URL>> >> >>]

UnserializeServer(v) ==
    IF v[1] # "json"
    THEN [err |-> "DecodeError", server |-> ZeroServer]
    ELSE [err |-> "nil",
          server |-> [Name |-> JsonGet(v[2], "name", NoBytes),
                      URL |-> JsonGet(v[2], "url", NoBytes)]]

\* json.Marshal(plexPin) / json.Unmarshal(plexPinBytes, &plexPinResponse)
MarshalPin(p) ==
    [err |-> "nil",
     out |-> <<"json", << <<"id", p.ID>>, <<"code", p.Code>> >> >>]

UnmarshalPin(v) ==
    IF v[1] # "json"
    THEN [err |-> "DecodeError", pin |-> ZeroPin]
    ELSE [err |-> "nil",
          pin |-> [ID |-> JsonGet(v[2], "id", 0),
                   Code |-> JsonGet(v[2], "code", NoBytes)]]

----------------------------------------------------------------------------
(* Cipher: encrypt / decrypt of package main, called by SavePlexToken and   *)
(* GetPlexToken.  Authenticated symmetric encryption under a fixed-length   *)
(* key: the representation binds the key and the plaintext, a key of any    *)
(* other length is refused, and a representation made under another key     *)
(* (or no cipher text at all) does not open.                                *)

ValidKey(secret) == Len(secret) = Len(Key1)

encrypt(secret, token) ==
    IF ValidKey(secret)
    THEN [err |-> "nil", out |-> <<"cipher", <<secret, token>>>>]
    ELSE [err |-> "EncryptionError", out |-> Raw(NoBytes)]

decrypt(secret, tokenHash) ==
    IF ValidKey(secret) /\ tokenHash[1] = "cipher" /\ tokenHash[2][1] = secret
    THEN [err |-> "nil", out |-> tokenHash[2][2]]
    ELSE [err |-> "DecryptionError", out |-> NoBytes]

----------------------------------------------------------------------------
(* Go slices over the prefix array.  append(s.keys.userPrefix, id...)       *)
(* writes the id into the prefix array itself when it fits the capacity,    *)
(* and the key it returns is a view of that array; otherwise it copies      *)
(* into a fresh array.                                                      *)

appendKey(arr, id) ==
    IF Len(userPrefix) + Len(id) <= Len(arr)
    THEN [arr |-> [i \in 1..Len(arr) |->
                     IF i > Len(userPrefix) /\ i <= Len(userPrefix) + Len(id)
                     THEN id[i - Len(userPrefix)]
                     ELSE arr[i]],
          key |-> [shared |-> TRUE, len |-> Len(userPrefix) + Len(id), own |-> NoBytes]]
    ELSE [arr |-> arr,
          key |-> [shared |-> FALSE, len |-> Len(userPrefix) + Len(id),
                   own |-> userPrefix \o id]]

\* the bytes a key slice shows now
ReadSlice(arr, key) == IF key.shared THEN SubSeq(arr, 1, key.len) ELSE key.own

\* the key of a user record as SaveUser, GetUser and DeleteUser form and use it
UserKey(arr, id) == LET a == appendKey(arr, id) IN ReadSlice(a.arr, a.key)

----------------------------------------------------------------------------
(* The engine (badger), as the Store calls it.                              *)

NoData == [k \in {} |-> Raw(NoBytes)]

Put(d, k, v) == [x \in DOMAIN d \cup {k} |-> IF x = k THEN v ELSE d[x]]

\* bytes.Compare(a, b) < 0: the engine's key order
RECURSIVE KeyLess(_, _)
KeyLess(a, b) ==
    IF b = <<>> THEN FALSE
    ELSE IF a = <<>> THEN TRUE
    ELSE IF a[1] # b[1] THEN a[1] < b[1]
    ELSE KeyLess(Tail(a), Tail(b))

\* the engine refuses a key over its maximum key size (txn.Set and txn.Delete
\* return an error for it); OversizeID is the one such id among the inputs
exceedsMaxKeySize(key) == key = userPrefix \o OversizeID

\* txn.Get(key)
txnGet(d, key) ==
    IF key = <<>> THEN [err |-> "ErrEmptyKey", val |-> Raw(NoBytes)]
    ELSE IF key \in DOMAIN d THEN [err |-> "nil", val |-> d[key]]
    ELSE [err |-> "ErrKeyNotFound", val |-> Raw(NoBytes)]

(* txn.Set(key, val, 0) and txn.Delete(key): the pending write is filed     *)
(* under string(key) as the key reads now, and the entry keeps the key      *)
(* slice itself, which is read again when the transaction commits.          *)
txnSet(pw, arr, key, val) ==
    LET k == ReadSlice(arr, key)
    IN IF k = <<>> THEN [err |-> "ErrEmptyKey", pw |-> pw]
       ELSE IF exceedsMaxKeySize(k) THEN [err |-> "ErrKeyTooLarge", pw |-> pw]
       ELSE [err |-> "nil",
             pw |-> Put(pw, k, [Key |-> key, Value |-> val, delete |-> FALSE])]

txnDelete(pw, arr, key) ==
    LET k == ReadSlice(arr, key)
    IN IF k = <<>> THEN [err |-> "ErrEmptyKey", pw |-> pw]
       ELSE IF exceedsMaxKeySize(k) THEN [err |-> "ErrKeyTooLarge", pw |-> pw]
       ELSE [err |-> "nil",
             pw |-> Put(pw, k, [Key |-> key, Value |-> Raw(NoBytes), delete |-> TRUE])]

NoWrites == [k \in {} |-> [Key |-> [shared |-> FALSE, len |-> 0, own |-> NoBytes],
                           Value |-> Raw(NoBytes), delete |-> FALSE]]

(* txn.Commit: every pending entry is written under the bytes its key       *)
(* slice shows at commit time, in the iteration order of the pending-write  *)
(* map, which is not fixed: of several entries that read the same key, any  *)
(* one may be the last and stay.  The result is the set of engine contents  *)
(* a commit can leave.                                                      *)
Commit(d, arr, pw) ==
    LET eff(k) == ReadSlice(arr, pw[k].Key)
        written == {eff(k) : k \in DOMAIN pw}
        orders == {w \in [written -> DOMAIN pw] : \A e \in written : eff(w[e]) = e}
    IN {[x \in ((DOMAIN d \ written) \cup {e \in written : ~pw[w[e]].delete}) |->
            IF x \in written THEN pw[w[x]].Value ELSE d[x]] : w \in orders}

\* a db.Update that commits whatever fn wrote, error or not
UpdateCommitsOnError(d, r) == Commit(d, r.arr, r.pw)

(* db.Update(fn): fn's error discards the transaction, otherwise it         *)
(* commits.  r is what fn left: [err, arr, pw].                             *)
Update(d, r) == IF r.err # "nil" THEN {d} ELSE Commit(d, r.arr, r.pw)

(* The engine handle is live until its Close is invoked.  What a Store       *)
(* method does on a closed engine is left open by the Store, so the data    *)
(* operations are modelled on a live engine only.                           *)
EngineOpen == dbCloseCalls = 0

\* a key slice of its own array (the singleton keys)
OwnKey(k) == [shared |-> FALSE, len |-> Len(k), own |-> k]

Call(op, arg, err, ret) == [op |-> op, arg |-> arg, err |-> err, ret |-> ret]

----------------------------------------------------------------------------
(* Store: lifecycle.                                                        *)

\* the goroutines that call the Store concurrently
Callers == {1, 2}

\* a caller that is in no call
NoCall ==
    [pc |-> "idle", op |-> "none", id |-> NoBytes, user |-> ZeroUser,
     key |-> OwnKey(NoBytes), pw |-> NoWrites, snap |-> NoData]

\* what the verbose branches have printed once lines are added, if the flag is set
Verbose(flag, out, lines) == IF flag THEN out \cup lines ELSE out

\* the prefix array of a newly built StoreKeys, of the capacity the build gives
FreshPrefix(arr) == [i \in 1..Len(arr) |-> IF i <= Len(userPrefix) THEN userPrefix[i] ELSE 0]

Init ==
    /\ db = NoData
    /\ dbCloseCalls = 0
    /\ userPrefixArr \in PrefixArrays
    /\ isClosed = FALSE
    /\ Secret = NoBytes
    /\ \E _isVerbose \in BOOLEAN : last = Call("InitDataStore", _isVerbose, "nil", NoBytes)
    /\ isVerbose = FALSE
    /\ verboseOut = {}
    /\ calls = [c \in Callers |-> NoCall]

\* an InitDataStore that takes the caller's flag whatever the flag was
InitDataStoreAssigns(_isVerbose) ==
    /\ isVerbose' = _isVerbose
    /\ IF EngineOpen
       THEN /\ last' = Call("InitDataStore", _isVerbose, "ErrDirLocked", NoBytes)
            /\ verboseOut' = Verbose(isVerbose', verboseOut, {"datastore exists"})
            /\ UNCHANGED <<dbCloseCalls, userPrefixArr, isClosed, Secret>>
       ELSE /\ dbCloseCalls' = 0
            /\ userPrefixArr' = FreshPrefix(userPrefixArr)
            /\ isClosed' = FALSE
            /\ Secret' = NoBytes
            /\ last' = Call("InitDataStore", _isVerbose, "nil", NoBytes)
            /\ verboseOut' = Verbose(isVerbose', verboseOut,
                                     {"datastore exists", "successfully opened data store"})
    /\ UNCHANGED <<db, calls>>

(* InitDataStore called again by the process, on the directory of the       *)
(* datastore (which exists by now).  The flag is assigned inside the        *)
(* branch that tests it.  badger.Open fails while the engine is open (the   *)
(* directory is locked) and the caller keeps the Store it has; once the     *)
(* engine is closed it opens the persisted contents and the caller gets a   *)
(* new Store: empty Secret, isClosed false, new StoreKeys.                  *)
InitDataStore(_isVerbose) ==
    /\ isVerbose' = IF isVerbose THEN _isVerbose ELSE isVerbose
    /\ LET checking == Verbose(isVerbose, verboseOut,
                               {"checking if our datastore exists in the home directory at:"})
           exists == Verbose(isVerbose', checking, {"datastore exists"})
       IN IF EngineOpen
          THEN /\ last' = Call("InitDataStore", _isVerbose, "ErrDirLocked", NoBytes)
               /\ verboseOut' = exists
               /\ UNCHANGED <<dbCloseCalls, userPrefixArr, isClosed, Secret>>
          ELSE /\ dbCloseCalls' = 0
               /\ userPrefixArr' = FreshPrefix(userPrefixArr)
               /\ isClosed' = FALSE
               /\ Secret' = NoBytes
               /\ last' = Call("InitDataStore", _isVerbose, "nil", NoBytes)
               /\ verboseOut' = Verbose(isVerbose', exists, {"successfully opened data store"})
    /\ UNCHANGED <<db, calls>>

(* Close has a value receiver: s is a copy of the caller's Store, so the    *)
(* assignment s.isClosed = true is lost when Close returns.                 *)
Close ==
    /\ dbCloseCalls < MaxClose
    /\ IF isClosed
       THEN /\ last' = Call("Close", NoBytes, "nil", "datastore already closed")
            /\ UNCHANGED dbCloseCalls
            /\ UNCHANGED verboseOut
       ELSE /\ dbCloseCalls' = dbCloseCalls + 1
            /\ last' = Call("Close", NoBytes, "nil", "closed")
            /\ verboseOut' = Verbose(isVerbose, verboseOut, {"datastore is closed"})
    /\ isClosed' = isClosed
    /\ UNCHANGED <<db, userPrefixArr, Secret, isVerbose, calls>>

\* the caller's assignment to the exported field: store.Secret = secret
SetSecret(secret) ==
    /\ EngineOpen
    /\ Secret' = secret
    /\ last' = Call("SetSecret", secret, "nil", NoBytes)
    /\ UNCHANGED <<db, dbCloseCalls, userPrefixArr, isClosed, isVerbose, verboseOut, calls>>

----------------------------------------------------------------------------
(* Store: the application secret.                                           *)

\* what GetSecret returns on engine contents d
GetSecretResult(d) ==
    LET item == txnGet(d, appSecret)
    IN IF item.err # "nil" THEN NoBytes ELSE item.val[2]

\* a GetSecret that keeps what it read in the Store's secret slot
GetSecretCaches ==
    /\ EngineOpen
    /\ Secret' = GetSecretResult(db)
    /\ last' = Call("GetSecret", NoBytes, "nil", GetSecretResult(db))
    /\ UNCHANGED <<db, dbCloseCalls, userPrefixArr, isClosed, isVerbose, verboseOut, calls>>

GetSecret ==
    /\ EngineOpen
    /\ last' = Call("GetSecret", NoBytes, "nil", GetSecretResult(db))
    /\ UNCHANGED <<db, dbCloseCalls, userPrefixArr, isClosed, Secret, isVerbose, verboseOut, calls>>

\* a SaveSecret that writes under another entity's key
SaveSecretTxnWrongKey(arr, secret) ==
    LET r == txnSet(NoWrites, arr, OwnKey(plexToken), Raw(secret))
    IN [err |-> r.err, arr |-> arr, pw |-> r.pw]

SaveSecretTxn(arr, secret) ==
    LET r == txnSet(NoWrites, arr, OwnKey(appSecret), Raw(secret))
    IN [err |-> r.err, arr |-> arr, pw |-> r.pw]

SaveSecret(secret) ==
    /\ EngineOpen
    /\ LET r == SaveSecretTxn(userPrefixArr, secret)
       IN /\ db' \in Update(db, r)
          /\ last' = Call("SaveSecret", secret, r.err, NoBytes)
    /\ UNCHANGED <<dbCloseCalls, userPrefixArr, isClosed, Secret, isVerbose, verboseOut, calls>>

----------------------------------------------------------------------------
(* Store: the upstream token.                                               *)

\* a GetPlexToken that drops the decryption error
GetPlexTokenDropsError(d, secret) ==
    LET item == txnGet(d, plexToken)
    IN IF item.err # "nil" THEN [err |-> item.err, ret |-> NoBytes]
       ELSE [err |-> "nil", ret |-> item.val[2][2]]

\* what GetPlexToken returns on engine contents d for a Store holding secret
GetPlexTokenResult(d, secret) ==
    LET item == txnGet(d, plexToken)
    IN IF item.err # "nil" THEN [err |-> item.err, ret |-> NoBytes]
       ELSE LET t == decrypt(secret, item.val)
            IN IF t.err # "nil" THEN [err |-> t.err, ret |-> NoBytes]
               ELSE [err |-> "nil", ret |-> t.out]

GetPlexToken ==
    /\ EngineOpen
    /\ LET r == GetPlexTokenResult(db, Secret)
       IN /\ last' = Call("GetPlexToken", NoBytes, r.err, r.ret)
          /\ verboseOut' =
                Verbose(isVerbose, verboseOut,
                        IF r.err = "DecryptionError" THEN {"token decryption failed"}
                        ELSE IF r.err = "nil" THEN {<<"Your plex token is", r.ret>>}
                        ELSE {})
    /\ UNCHANGED <<db, dbCloseCalls, userPrefixArr, isClosed, Secret, isVerbose, calls>>

SavePlexTokenTxn(arr, tokenHash) ==
    LET r == txnSet(NoWrites, arr, OwnKey(plexToken), tokenHash)
    IN [err |-> r.err, arr |-> arr, pw |-> r.pw]

\* a SavePlexToken that writes the token itself
SavePlexTokenPlain(token) ==
    /\ EngineOpen
    /\ LET r == SavePlexTokenTxn(userPrefixArr, Raw(token))
       IN /\ db' \in Update(db, r)
          /\ last' = Call("SavePlexToken", token, r.err, NoBytes)
    /\ UNCHANGED <<dbCloseCalls, userPrefixArr, isClosed, Secret, isVerbose, verboseOut, calls>>

\* a SavePlexToken that goes on to write when encrypt has failed
SavePlexTokenIgnoresError(token) ==
    /\ EngineOpen
    /\ LET r == SavePlexTokenTxn(userPrefixArr, encrypt(Secret, token).out)
       IN /\ db' \in Update(db, r)
          /\ last' = Call("SavePlexToken", token, r.err, NoBytes)
    /\ UNCHANGED <<dbCloseCalls, userPrefixArr, isClosed, Secret, isVerbose, verboseOut, calls>>

SavePlexToken(token) ==
    /\ EngineOpen
    /\ LET tokenHash == encrypt(Secret, token)
       IN IF tokenHash.err # "nil"
          THEN /\ last' = Call("SavePlexToken", token, tokenHash.err, NoBytes)
               /\ UNCHANGED <<db, verboseOut>>
          ELSE LET r == SavePlexTokenTxn(userPrefixArr, tokenHash.out)
               IN /\ db' \in Update(db, r)
                  /\ last' = Call("SavePlexToken", token, r.err, NoBytes)
                  /\ verboseOut' =
                        Verbose(isVerbose, verboseOut,
                                {<<"your plex token hash:", tokenHash.out>>}
                                  \cup (IF r.err = "nil" THEN {"saved token hash to store"}
                                        ELSE {}))
    /\ UNCHANGED <<dbCloseCalls, userPrefixArr, isClosed, Secret, isVerbose, calls>>

----------------------------------------------------------------------------
(* Store: the pending pin.                                                  *)

GetPlexPinResult(d) ==
    LET item == txnGet(d, plexPin)
    IN IF item.err # "nil" THEN [err |-> item.err, ret |-> ZeroPin]
       ELSE LET p == UnmarshalPin(item.val)
            IN IF p.err # "nil" THEN [err |-> p.err, ret |-> ZeroPin]
               ELSE [err |-> "nil", ret |-> p.pin]

GetPlexPin ==
    /\ EngineOpen
    /\ LET r == GetPlexPinResult(db)
       IN last' = Call("GetPlexPin", NoBytes, r.err, r.ret)
    /\ UNCHANGED <<db, dbCloseCalls, userPrefixArr, isClosed, Secret, isVerbose, verboseOut, calls>>

SavePlexPinTxn(arr, plexPinByte) ==
    LET r == txnSet(NoWrites, arr, OwnKey(plexPin), plexPinByte)
    IN [err |-> r.err, arr |-> arr, pw |-> r.pw]

SavePlexPin(pin) ==
    /\ EngineOpen
    /\ LET plexPinByte == MarshalPin(pin)
       IN IF plexPinByte.err # "nil"
          THEN /\ last' = Call("SavePlexPin", pin, plexPinByte.err, NoBytes)
               /\ UNCHANGED db
          ELSE LET r == SavePlexPinTxn(userPrefixArr, plexPinByte.out)
               IN /\ db' \in Update(db, r)
                  /\ last' = Call("SavePlexPin", pin, r.err, NoBytes)
    /\ UNCHANGED <<dbCloseCalls, userPrefixArr, isClosed, Secret, isVerbose, verboseOut, calls>>

ClearPlexPinTxn(arr) ==
    LET r == txnDelete(NoWrites, arr, OwnKey(plexPin))
    IN [err |-> r.err, arr |-> arr, pw |-> r.pw]

ClearPlexPin ==
    /\ EngineOpen
    /\ LET r == ClearPlexPinTxn(userPrefixArr)
       IN /\ db' \in Update(db, r)
          /\ last' = Call("ClearPlexPin", NoBytes, r.err, NoBytes)
    /\ UNCHANGED <<dbCloseCalls, userPrefixArr, isClosed, Secret, isVerbose, verboseOut, calls>>

----------------------------------------------------------------------------
(* Store: the server identity.                                              *)

GetPlexServerResult(d) ==
    LET item == txnGet(d, plexServer)
    IN IF item.err # "nil" THEN [err |-> item.err, ret |-> ZeroServer]
       ELSE LET s == UnserializeServer(item.val)
            IN IF s.err # "nil" THEN [err |-> s.err, ret |-> ZeroServer]
               ELSE [err |-> "nil", ret |-> s.server]

GetPlexServer ==
    /\ EngineOpen
    /\ LET r == GetPlexServerResult(db)
       IN last' = Call("GetPlexServer", NoBytes, r.err, r.ret)
    /\ UNCHANGED <<db, dbCloseCalls, userPrefixArr, isClosed, Secret, isVerbose, verboseOut, calls>>

SavePlexServerTxn(arr, serializedServer) ==
    LET r == txnSet(NoWrites, arr, OwnKey(plexServer), serializedServer)
    IN [err |-> r.err, arr |-> arr, pw |-> r.pw]

SavePlexServer(server) ==
    /\ EngineOpen
    /\ LET serializedServer == SerializeServer(server)
       IN IF serializedServer.err # "nil"
          THEN /\ last' = Call("SavePlexServer", server, serializedServer.err, NoBytes)
               /\ UNCHANGED db
          ELSE LET r == SavePlexServerTxn(userPrefixArr, serializedServer.out)
               IN /\ db' \in Update(db, r)
                  /\ last' = Call("SavePlexServer", server, r.err, NoBytes)
    /\ UNCHANGED <<dbCloseCalls, userPrefixArr, isClosed, Secret, isVerbose, verboseOut, calls>>

----------------------------------------------------------------------------
(* Store: user records.                                                     *)

\* the closure SaveUser hands to db.Update
SaveUserTxn(arr, user) ==
    LET a == appendKey(arr, user.PlexUserID)
        serializedUser == Serialize(user)
    IN IF serializedUser.err # "nil"
       THEN [err |-> serializedUser.err, arr |-> a.arr, pw |-> NoWrites]
       ELSE LET r == txnSet(NoWrites, a.arr, a.key, serializedUser.out)
            IN [err |-> r.err, arr |-> a.arr, pw |-> r.pw]

SaveUser(user) ==
    /\ EngineOpen
    /\ LET r == SaveUserTxn(userPrefixArr, user)
       IN /\ userPrefixArr' = r.arr
          /\ db' \in Update(db, r)
          /\ last' = Call("SaveUser", user, r.err, NoBytes)
    /\ UNCHANGED <<dbCloseCalls, isClosed, Secret, isVerbose, verboseOut, calls>>

\* the closure SaveUsers hands to db.Update: the loop from users onward
RECURSIVE SaveUsersLoop(_, _, _)
SaveUsersLoop(arr, pw, users) ==
    IF users = <<>> THEN [err |-> "nil", arr |-> arr, pw |-> pw]
    ELSE LET user == Head(users)
             a == appendKey(arr, user.PlexUserID)
             serializedUser == Serialize(user)
         IN IF serializedUser.err # "nil"
            THEN [err |-> serializedUser.err, arr |-> a.arr, pw |-> pw]
            ELSE LET r == txnSet(pw, a.arr, a.key, serializedUser.out)
                 IN IF r.err # "nil"
                    THEN [err |-> r.err, arr |-> a.arr, pw |-> r.pw]
                    ELSE SaveUsersLoop(a.arr, r.pw, Tail(users))

SaveUsersTxn(arr, users) == SaveUsersLoop(arr, NoWrites, users)

SaveUsers(users) ==
    /\ EngineOpen
    /\ LET r == SaveUsersTxn(userPrefixArr, users)
       IN /\ userPrefixArr' = r.arr
          /\ db' \in Update(db, r)
          /\ last' = Call("SaveUsers", users, r.err, NoBytes)
    /\ UNCHANGED <<dbCloseCalls, isClosed, Secret, isVerbose, verboseOut, calls>>

\* the closure GetUser hands to db.View
GetUserTxn(d, arr, id) ==
    LET a == appendKey(arr, id)
        item == txnGet(d, ReadSlice(a.arr, a.key))
    IN IF item.err # "nil" THEN [err |-> item.err, arr |-> a.arr, ret |-> ZeroUser]
       ELSE LET u == UnserializeUser(item.val)
            IN IF u.err # "nil" THEN [err |-> u.err, arr |-> a.arr, ret |-> ZeroUser]
               ELSE [err |-> "nil", arr |-> a.arr, ret |-> u.user]

\* what GetUser(id) returns on engine contents d
GetUserResult(d, id) ==
    LET r == GetUserTxn(d, userPrefixArr, id) IN [err |-> r.err, ret |-> r.ret]

GetUser(id) ==
    /\ EngineOpen
    /\ LET r == GetUserTxn(db, userPrefixArr, id)
       IN /\ userPrefixArr' = r.arr
          /\ last' = Call("GetUser", id, r.err, r.ret)
    /\ UNCHANGED <<db, dbCloseCalls, isClosed, Secret, isVerbose, verboseOut, calls>>

NoUsers == [id \in {} |-> ZeroUser]

(* The iterator of GetAllUsers: it.Seek(prefix) stands on the smallest key  *)
(* >= prefix, it.Next() moves on in key order and it.Valid() holds while    *)
(* an entry is left; keys is the set of entries still ahead.                *)
RECURSIVE IterateUsers(_, _, _)
IterateUsers(d, keys, users) ==
    IF keys = {} THEN [err |-> "nil", ret |-> users]
    ELSE LET k == CHOOSE x \in keys : \A y \in keys \ {x} : KeyLess(x, y)
             u == UnserializeUser(d[k])
         IN IF u.err # "nil" THEN [err |-> u.err, ret |-> users]
            ELSE IterateUsers(d, keys \ {k}, Put(users, u.user.PlexUserID, u.user))

\* what GetAllUsers returns on engine contents d
GetAllUsersResult(d) ==
    LET prefix == userPrefix
    IN IterateUsers(d, {k \in DOMAIN d : ~KeyLess(k, prefix)}, NoUsers)

GetAllUsers ==
    /\ EngineOpen
    /\ LET r == GetAllUsersResult(db)
       IN last' = Call("GetAllUsers", NoBytes, r.err, r.ret)
    /\ UNCHANGED <<db, dbCloseCalls, userPrefixArr, isClosed, Secret, isVerbose, verboseOut, calls>>

\* the closure DeleteUser hands to db.Update
DeleteUserTxn(arr, id) ==
    LET a == appendKey(arr, id)
        r == txnDelete(NoWrites, a.arr, a.key)
    IN [err |-> r.err, arr |-> a.arr, pw |-> r.pw]

\* a DeleteUser without the empty-id check
DeleteUserUnchecked(id) ==
    /\ EngineOpen
    /\ LET r == DeleteUserTxn(userPrefixArr, id)
       IN /\ userPrefixArr' = r.arr
          /\ db' \in Update(db, r)
          /\ last' = Call("DeleteUser", id, r.err, NoBytes)
    /\ UNCHANGED <<dbCloseCalls, isClosed, Secret, isVerbose, verboseOut, calls>>

DeleteUser(id) ==
    /\ EngineOpen
    /\ IF id = NoBytes
       THEN /\ last' = Call("DeleteUser", id, "id is required", NoBytes)
            /\ UNCHANGED <<db, userPrefixArr>>
       ELSE LET r == DeleteUserTxn(userPrefixArr, id)
            IN /\ userPrefixArr' = r.arr
               /\ db' \in Update(db, r)
               /\ last' = Call("DeleteUser", id, r.err, NoBytes)
    /\ UNCHANGED <<dbCloseCalls, isClosed, Secret, isVerbose, verboseOut, calls>>

\* a DeleteUsers loop with DeleteUser's check: it passes over the empty id
RECURSIVE DeleteUsersLoopChecked(_, _, _)
DeleteUsersLoopChecked(arr, pw, userIDs) ==
    IF userIDs = <<>> THEN [err |-> "nil", arr |-> arr, pw |-> pw]
    ELSE IF Head(userIDs) = NoBytes THEN DeleteUsersLoopChecked(arr, pw, Tail(userIDs))
    ELSE LET a == appendKey(arr, Head(userIDs))
             r == txnDelete(pw, a.arr, a.key)
         IN DeleteUsersLoopChecked(a.arr, r.pw, Tail(userIDs))

\* the closure DeleteUsers hands to db.Update: a failed delete is reported
\* and the loop goes on
RECURSIVE DeleteUsersLoop(_, _, _)
DeleteUsersLoop(arr, pw, userIDs) ==
    IF userIDs = <<>> THEN [err |-> "nil", arr |-> arr, pw |-> pw]
    ELSE LET a == appendKey(arr, Head(userIDs))
             r == txnDelete(pw, a.arr, a.key)
         IN DeleteUsersLoop(a.arr, r.pw, Tail(userIDs))

DeleteUsersTxn(arr, userIDs) == DeleteUsersLoop(arr, NoWrites, userIDs)

DeleteUsers(userIDs) ==
    /\ EngineOpen
    /\ LET r == DeleteUsersTxn(userPrefixArr, userIDs)
       IN /\ userPrefixArr' = r.arr
          /\ db' \in Update(db, r)
          /\ last' = Call("DeleteUsers", userIDs, r.err, NoBytes)
    /\ UNCHANGED <<dbCloseCalls, isClosed, Secret, isVerbose, verboseOut, calls>>

----------------------------------------------------------------------------
(* Concurrent callers.  Goroutines that call SaveUser, GetUser and          *)
(* DeleteUser on one Store run the same code, interleaved at its calls:     *)
(* the append that forms the key, the engine call that takes the key, and   *)
(* the commit.  The engine serializes commits and gives a read-only          *)
(* transaction the contents as of its start; the prefix array is memory     *)
(* the callers share without synchronization.                               *)

\* the caller returns: it is in no call, and last records the call
Return(c, call) ==
    /\ calls' = [calls EXCEPT ![c] = NoCall]
    /\ last' = call

\* db.Update starts the closure: key := append(s.keys.userPrefix, id...)
BeginSaveUser(c, user) ==
    /\ EngineOpen
    /\ calls[c].pc = "idle"
    /\ LET a == appendKey(userPrefixArr, user.PlexUserID)
       IN /\ userPrefixArr' = a.arr
          /\ calls' = [calls EXCEPT ![c] =
                          [pc |-> "set", op |-> "SaveUser", id |-> user.PlexUserID,
                           user |-> user, key |-> a.key, pw |-> NoWrites, snap |-> db]]
    /\ UNCHANGED <<db, dbCloseCalls, isClosed, Secret, last, isVerbose, verboseOut>>

BeginDeleteUser(c, id) ==
    /\ EngineOpen
    /\ calls[c].pc = "idle"
    /\ IF id = NoBytes
       THEN /\ Return(c, Call("DeleteUser", id, "id is required", NoBytes))
            /\ UNCHANGED userPrefixArr
       ELSE LET a == appendKey(userPrefixArr, id)
            IN /\ userPrefixArr' = a.arr
               /\ calls' = [calls EXCEPT ![c] =
                               [pc |-> "set", op |-> "DeleteUser", id |-> id,
                                user |-> ZeroUser, key |-> a.key, pw |-> NoWrites,
                                snap |-> db]]
               /\ UNCHANGED last
    /\ UNCHANGED <<db, dbCloseCalls, isClosed, Secret, isVerbose, verboseOut>>

\* db.View starts the closure on the contents of now
BeginGetUser(c, id) ==
    /\ EngineOpen
    /\ calls[c].pc = "idle"
    /\ LET a == appendKey(userPrefixArr, id)
       IN /\ userPrefixArr' = a.arr
          /\ calls' = [calls EXCEPT ![c] =
                          [pc |-> "get", op |-> "GetUser", id |-> id, user |-> ZeroUser,
                           key |-> a.key, pw |-> NoWrites, snap |-> db]]
    /\ UNCHANGED <<db, dbCloseCalls, isClosed, Secret, last, isVerbose, verboseOut>>

\* the argument of the call caller c is in
CallArg(c) == IF calls[c].op = "SaveUser" THEN calls[c].user ELSE calls[c].id

\* txn.Set(key, serializedUser, 0) of SaveUser, txn.Delete(key) of DeleteUser
StepSet(c) ==
    /\ calls[c].pc = "set"
    /\ LET serializedUser == Serialize(calls[c].user)
           r == IF calls[c].op = "SaveUser"
                THEN IF serializedUser.err # "nil"
                     THEN [err |-> serializedUser.err, pw |-> NoWrites]
                     ELSE txnSet(NoWrites, userPrefixArr, calls[c].key, serializedUser.out)
                ELSE txnDelete(NoWrites, userPrefixArr, calls[c].key)
       IN IF r.err # "nil"
          THEN Return(c, Call(calls[c].op, CallArg(c), r.err, NoBytes))
          ELSE /\ calls' = [calls EXCEPT ![c].pc = "commit", ![c].pw = r.pw]
               /\ UNCHANGED last
    /\ UNCHANGED <<db, dbCloseCalls, userPrefixArr, isClosed, Secret, isVerbose, verboseOut>>

\* the closure has returned nil: db.Update commits
StepCommit(c) ==
    /\ calls[c].pc = "commit"
    /\ db' \in Commit(db, userPrefixArr, calls[c].pw)
    /\ Return(c, Call(calls[c].op, CallArg(c), "nil", NoBytes))
    /\ UNCHANGED <<dbCloseCalls, userPrefixArr, isClosed, Secret, isVerbose, verboseOut>>

\* txn.Get(key) and what follows it in GetUser
StepGet(c) ==
    /\ calls[c].pc = "get"
    /\ LET item == txnGet(calls[c].snap, ReadSlice(userPrefixArr, calls[c].key))
           u == UnserializeUser(item.val)
       IN IF item.err # "nil" THEN Return(c, Call("GetUser", calls[c].id, item.err, ZeroUser))
          ELSE IF u.err # "nil" THEN Return(c, Call("GetUser", calls[c].id, u.err, ZeroUser))
          ELSE Return(c, Call("GetUser", calls[c].id, "nil", u.user))
    /\ UNCHANGED <<db, dbCloseCalls, userPrefixArr, isClosed, Secret, isVerbose, verboseOut>>

----------------------------------------------------------------------------
(* Specifications.  Spec is the whole Store over a narrow set of inputs;    *)
(* SpecUsers and SpecToken run one group of operations over wider inputs    *)
(* (the empty id, an id the engine refuses, both secrets and tokens;        *)
(* SpecToken has the writes of the other entities beside them).             *)

NarrowIDs == {ID1, ID2}
NarrowUsers == {NewUser(ID1, FALSE), NewUser(ID1, TRUE), NewUser(ID2, FALSE)}

Next ==
    \/ \E _isVerbose \in BOOLEAN : InitDataStore(_isVerbose)
    \/ Close
    \/ \E secret \in {Key1} : SetSecret(secret)
    \/ GetSecret
    \/ \E secret \in {Key1} : SaveSecret(secret)
    \/ GetPlexToken
    \/ \E token \in {<<120>>} : SavePlexToken(token)
    \/ GetPlexPin
    \/ \E pin \in Pins : SavePlexPin(pin)
    \/ ClearPlexPin
    \/ GetPlexServer
    \/ \E server \in {[Name |-> <<115>>, URL |-> <<104>>]} : SavePlexServer(server)
    \/ \E user \in NarrowUsers : SaveUser(user)
    \/ \E users \in SeqsUpTo(NarrowUsers, MaxBatch) : SaveUsers(users)
    \/ \E id \in NarrowIDs : GetUser(id)
    \/ GetAllUsers
    \/ \E id \in NarrowIDs : DeleteUser(id)
    \/ \E userIDs \in SeqsUpTo(NarrowIDs, MaxBatch) : DeleteUsers(userIDs)

Spec == Init /\ [][Next]_vars

NextUsers ==
    \/ \E user \in Users : SaveUser(user)
    \/ \E users \in SeqsUpTo(Users, MaxBatch) : SaveUsers(users)
    \/ \E id \in IDs : GetUser(id)
    \/ GetAllUsers
    \/ \E id \in IDs : DeleteUser(id)
    \/ \E userIDs \in SeqsUpTo(IDs, MaxBatch) : DeleteUsers(userIDs)

SpecUsers == Init /\ [][NextUsers]_vars

NextToken ==
    \/ \E secret \in Secrets : SetSecret(secret)
    \/ GetSecret
    \/ \E secret \in Secrets : SaveSecret(secret)
    \/ GetPlexToken
    \/ \E token \in Tokens : SavePlexToken(token)
    \/ \E pin \in Pins : SavePlexPin(pin)
    \/ \E server \in Servers : SavePlexServer(server)
    \/ \E user \in NarrowUsers : SaveUser(user)

SpecToken == Init /\ [][NextToken]_vars

\* every write and read of the Store, with user ids of two lengths
FrameIDs == {ID2, ID12}
FrameUsers == {NewUser(id, FALSE) : id \in FrameIDs}

NextFrame ==
    \/ \E secret \in {Key1} : SetSecret(secret)
    \/ GetSecret
    \/ \E secret \in {Key1} : SaveSecret(secret)
    \/ GetPlexToken
    \/ \E token \in {<<120>>} : SavePlexToken(token)
    \/ GetPlexPin
    \/ \E pin \in Pins : SavePlexPin(pin)
    \/ ClearPlexPin
    \/ GetPlexServer
    \/ \E server \in {[Name |-> <<115>>, URL |-> <<104>>]} : SavePlexServer(server)
    \/ \E user \in FrameUsers : SaveUser(user)
    \/ \E users \in SeqsUpTo(FrameUsers, MaxBatch) : SaveUsers(users)
    \/ \E id \in FrameIDs : GetUser(id)
    \/ GetAllUsers
    \/ \E id \in FrameIDs : DeleteUser(id)
    \/ \E userIDs \in SeqsUpTo(FrameIDs, MaxBatch) : DeleteUsers(userIDs)

SpecFrame == Init /\ [][NextFrame]_vars

(* A datastore directory that exists already (store.go:107-109) holds what  *)
(* was written to it before; MarkerValues are values found under the        *)
(* reserved key users: raw bytes, or a JSON object that is no user record.   *)
MarkerValues == {Raw(<<49>>), <<"json", << <<"keys", <<49>>>> >> >>}

InitExisting ==
    /\ db \in {NoData} \cup {Put(NoData, allUsers, v) : v \in MarkerValues}
    /\ dbCloseCalls = 0
    /\ userPrefixArr \in PrefixArrays
    /\ isClosed = FALSE
    /\ Secret = NoBytes
    /\ \E _isVerbose \in BOOLEAN : last = Call("InitDataStore", _isVerbose, "nil", NoBytes)
    /\ isVerbose = FALSE
    /\ verboseOut = {}
    /\ calls = [c \in Callers |-> NoCall]

NextScan ==
    \/ \E user \in NarrowUsers : SaveUser(user)
    \/ \E id \in NarrowIDs : GetUser(id)
    \/ GetAllUsers
    \/ \E id \in NarrowIDs : DeleteUser(id)

SpecScan == InitExisting /\ [][NextScan]_vars

\* opening, closing and opening again, with the token read and written
NextVerbose ==
    \/ \E _isVerbose \in BOOLEAN : InitDataStore(_isVerbose)
    \/ Close
    \/ \E secret \in Secrets : SetSecret(secret)
    \/ GetPlexToken
    \/ \E token \in Tokens : SavePlexToken(token)

SpecVerbose == Init /\ [][NextVerbose]_vars

\* two callers, each with a plexUserID of its own
CallerID(c) == IF c = 1 THEN ID1 ELSE ID2

NextConcurrent ==
    \E c \in Callers :
        \/ BeginSaveUser(c, NewUser(CallerID(c), FALSE))
        \/ BeginGetUser(c, CallerID(c))
        \/ BeginDeleteUser(c, CallerID(c))
        \/ StepSet(c)
        \/ StepCommit(c)
        \/ StepGet(c)

SpecConcurrent == Init /\ [][NextConcurrent]_vars

\* the single-record operations over the ids that probe the key namespace
NextKeys ==
    \/ \E secret \in {Key1} : SaveSecret(secret)
    \/ GetSecret
    \/ \E user \in KeyUsers : SaveUser(user)
    \/ \E id \in KeyIDs : GetUser(id)
    \/ \E id \in KeyIDs : DeleteUser(id)

SpecKeys == Init /\ [][NextKeys]_vars

----------------------------------------------------------------------------
(* Properties.  A state is the state right after the call recorded in       *)
(* last; an action property compares it with the state before that call.    *)

Range(seq) == {seq[i] : i \in 1..Len(seq)}

Found(value) == [err |-> "nil", ret |-> value]

\* the ids GetUser finds on engine contents d, each with what it returns
UsersFound(d) ==
    [id \in {i \in IDs : GetUserResult(d, i).err = "nil"} |-> GetUserResult(d, id).ret]

RECURSIVE PutAll(_, _)
PutAll(m, users) ==
    IF users = <<>> THEN m
    ELSE PutAll(Put(m, Head(users).PlexUserID, Head(users)), Tail(users))

Without(m, ids) == [id \in DOMAIN m \ ids |-> m[id]]

\* the users that are saved and not deleted once call has returned, given
\* those before it
UsersAfter(m, call) ==
    IF call.err # "nil" THEN m
    ELSE CASE call.op = "SaveUser" -> Put(m, call.arg.PlexUserID, call.arg)
           [] call.op = "SaveUsers" -> PutAll(m, call.arg)
           [] call.op = "DeleteUser" -> Without(m, {call.arg})
           [] call.op = "DeleteUsers" -> Without(m, Range(call.arg))
           [] OTHER -> m

DistinctIDs(users) ==
    \A i, j \in 1..Len(users) : i # j => users[i].PlexUserID # users[j].PlexUserID

(* C1: a SaveUsers call that returns an error commits nothing: the engine   *)
(* holds after the call exactly what it held before, and so GetUser of      *)
(* every id answers as it did before.                                       *)
C1_SaveUsersAllOrNothing ==
    [][(last'.op = "SaveUsers" /\ last'.err # "nil") =>
          /\ db' = db
          /\ \A id \in IDs : GetUserResult(db', id) = GetUserResult(db, id)]_vars

\* a batch failed at its second record, after a record the engine accepted
C1_Witness ==
    /\ last.op = "SaveUsers"
    /\ last.err # "nil"
    /\ Len(last.arg) >= 2
    /\ ~exceedsMaxKeySize(userPrefix \o last.arg[1].PlexUserID)

(* C2: after a successful SaveUsers of users with pairwise distinct ids,    *)
(* GetUser of each id returns that user.                                    *)
C2_SaveUsersWritesEvery ==
    (last.op = "SaveUsers" /\ last.err = "nil" /\ DistinctIDs(last.arg)) =>
        \A i \in 1..Len(last.arg) :
            GetUserResult(db, last.arg[i].PlexUserID) = Found(last.arg[i])

(* C3: GetAllUsers returns exactly the users saved and not since deleted,   *)
(* each as last saved: every call changes what GetAllUsers returns the way  *)
(* the call changes that set, and the singleton writes do not change it.    *)
C3_ScanExact ==
    [][LET before == GetAllUsersResult(db)
           after == GetAllUsersResult(db')
       IN /\ after.err = "nil"
          /\ after.ret = UsersAfter(before.ret, last')]_vars

(* C4: DeleteUsers returns no error, afterwards GetUser finds none of the   *)
(* ids of the batch, and GetUser of every other id answers as before.       *)
C4_DeleteUsersBestEffort ==
    [][last'.op = "DeleteUsers" =>
          /\ last'.err = "nil"
          /\ \A id \in IDs :
                IF id \in Range(last'.arg)
                THEN GetUserResult(db', id).err = "ErrKeyNotFound"
                ELSE GetUserResult(db', id) = GetUserResult(db, id)]_vars

(* C5: after SavePlexToken(t), GetPlexToken on a Store holding the same     *)
(* secret returns t, and on a Store holding any other secret it fails with  *)
(* the decryption error; in no state does GetPlexToken return, for any      *)
(* secret, a plaintext other than the one the stored cipher text was made   *)
(* from.                                                                    *)
C5_TokenRoundTrip ==
    /\ (last.op = "SavePlexToken" /\ last.err = "nil") =>
          \A secret \in Secrets :
              IF secret = Secret
              THEN GetPlexTokenResult(db, secret) = Found(last.arg)
              ELSE GetPlexTokenResult(db, secret).err = "DecryptionError"
    /\ \A secret \in Secrets :
          LET r == GetPlexTokenResult(db, secret)
          IN r.err = "nil" => db[plexToken] = encrypt(secret, r.ret).out
    /\ last.op = "GetPlexToken" =>
          [err |-> last.err, ret |-> last.ret] = GetPlexTokenResult(db, Secret)

\* GetPlexToken has failed to decrypt a stored token under another secret
C5_Witness ==
    /\ last.op = "GetPlexToken"
    /\ last.err = "DecryptionError"
    /\ plexToken \in DOMAIN db
    /\ ValidKey(Secret)

(* C6: the value under the plex-token key is the cipher text of the token   *)
(* under the in-memory secret, and no key holds a token in plain text.      *)
C6_NoPlaintextToken ==
    /\ (last.op = "SavePlexToken" /\ last.err = "nil") =>
          /\ encrypt(Secret, last.arg).err = "nil"
          /\ db[plexToken] = encrypt(Secret, last.arg).out
    /\ plexToken \in DOMAIN db => db[plexToken][1] = "cipher"
    /\ \A k \in DOMAIN db : db[k][1] = "raw" => db[k][2] \notin Tokens

C6_Witness ==
    /\ last.op = "SavePlexToken"
    /\ last.err = "nil"
    /\ plexToken \in DOMAIN db

(* C7: the engine's Close is invoked at most once, and a Close call on a    *)
(* closed store reports it and does nothing.                                *)
C7_CloseIdempotent ==
    /\ dbCloseCalls <= 1
    /\ (last.op = "Close" /\ dbCloseCalls > 1) => last.ret = "datastore already closed"

(* C8: GetSecret returns no error; it returns the empty sequence while no   *)
(* secret was saved and the last saved secret afterwards, and it leaves     *)
(* the engine as it was.                                                    *)
C8_GetSecret ==
    /\ GetSecretResult(db) = NoBytes
    /\ [][/\ (last'.op = "SaveSecret" /\ last'.err = "nil") =>
                GetSecretResult(db') = last'.arg
          /\ last'.op # "SaveSecret" => GetSecretResult(db') = GetSecretResult(db)
          /\ last'.op = "GetSecret" =>
                /\ last'.err = "nil"
                /\ last'.ret = GetSecretResult(db)
                /\ db' = db]_vars

\* GetSecret has returned a saved secret
C8_Witness ==
    /\ last.op = "GetSecret"
    /\ last.ret = Key2
    /\ appSecret \in DOMAIN db

(* C9: GetPlexPin, GetPlexServer, GetPlexToken and GetUser return the       *)
(* engine's key-not-found error exactly when their key is absent, also      *)
(* after ClearPlexPin, DeleteUser and DeleteUsers, and the last saved       *)
(* value otherwise.                                                         *)
C9_AbsentIsNotFound ==
    [][/\ (GetPlexPinResult(db').err = "ErrKeyNotFound") <=> (plexPin \notin DOMAIN db')
       /\ (GetPlexServerResult(db').err = "ErrKeyNotFound") <=> (plexServer \notin DOMAIN db')
       /\ (GetPlexTokenResult(db', Secret').err = "ErrKeyNotFound")
              <=> (plexToken \notin DOMAIN db')
       /\ \A id \in IDs : (GetUserResult(db', id).err = "ErrKeyNotFound")
                              <=> ((userPrefix \o id) \notin DOMAIN db')
       /\ IF last'.err # "nil"
          THEN /\ GetPlexPinResult(db') = GetPlexPinResult(db)
               /\ GetPlexServerResult(db') = GetPlexServerResult(db)
          ELSE /\ CASE last'.op = "SavePlexPin" -> GetPlexPinResult(db') = Found(last'.arg)
                    [] last'.op = "ClearPlexPin" ->
                           GetPlexPinResult(db').err = "ErrKeyNotFound"
                    [] OTHER -> GetPlexPinResult(db') = GetPlexPinResult(db)
               /\ IF last'.op = "SavePlexServer"
                  THEN GetPlexServerResult(db') = Found(last'.arg)
                  ELSE GetPlexServerResult(db') = GetPlexServerResult(db)
               /\ last'.op = "SavePlexToken" =>
                      GetPlexTokenResult(db', Secret') = Found(last'.arg)
       /\ plexToken \in DOMAIN db' => GetPlexTokenResult(db', Secret').err = "nil"
       /\ LET users == UsersAfter(UsersFound(db), last')
          IN \A id \in IDs :
                IF id \in DOMAIN users
                THEN GetUserResult(db', id) = Found(users[id])
                ELSE GetUserResult(db', id).err = "ErrKeyNotFound"]_vars

(* C10, as stated: DeleteUser("") returns the validation error and leaves   *)
(* the engine as it was; for every non-empty id DeleteUser returns no       *)
(* error and removes the key user-<id>, stored or not.                      *)
C10_DeleteUserAnyID ==
    [][last'.op = "DeleteUser" =>
          IF last'.arg = NoBytes
          THEN last'.err = "id is required" /\ db' = db
          ELSE /\ last'.err = "nil"
               /\ db' = Without(db, {userPrefix \o last'.arg})]_vars

(* C10, amended: DeleteUser("") returns the validation error and leaves     *)
(* the engine as it was; for a non-empty id whose key the engine accepts    *)
(* DeleteUser returns no error and removes the key user-<id>, stored or     *)
(* not; for an id whose key the engine refuses it returns the engine's      *)
(* error and leaves the engine as it was.                                   *)
C10_DeleteUser ==
    [][last'.op = "DeleteUser" =>
          IF last'.arg = NoBytes
          THEN last'.err = "id is required" /\ db' = db
          ELSE IF exceedsMaxKeySize(userPrefix \o last'.arg)
          THEN last'.err = "ErrKeyTooLarge" /\ db' = db
          ELSE /\ last'.err = "nil"
               /\ db' = Without(db, {userPrefix \o last'.arg})]_vars

\* DeleteUser("") was refused while a record is stored under the bare prefix
C10_Witness ==
    /\ last.op = "DeleteUser"
    /\ last.arg = NoBytes
    /\ last.err = "id is required"
    /\ userPrefix \in DOMAIN db

ReservedKeys == {appSecret, plexToken, plexPin, plexServer, allUsers}

(* C11: for every plexUserID, the empty one and those that begin with a     *)
(* reserved key name included, the key user-<id> is none of the reserved    *)
(* keys, and the keys of two distinct ids differ; so a stored user record   *)
(* is found under its own id only and the value under app-secret is never   *)
(* a user record.                                                           *)
C11_KeysCollisionFree ==
    /\ \A id \in KeyIDs : UserKey(userPrefixArr, id) \notin ReservedKeys
    /\ \A id1, id2 \in KeyIDs :
          id1 # id2 => UserKey(userPrefixArr, id1) # UserKey(userPrefixArr, id2)
    /\ \A k \in DOMAIN db \cap ReservedKeys : db[k][1] # "json"
    /\ (last.op = "SaveUser" /\ last.err = "nil") =>
          /\ db[UserKey(userPrefixArr, last.arg.PlexUserID)] = Serialize(last.arg).out
          /\ \A id \in KeyIDs :
                GetUserResult(db, id).err = "nil" => GetUserResult(db, id).ret.PlexUserID = id

\* the user "s" and the user "users" are both stored beside the app secret
C11_Witness ==
    /\ last.op = "SaveUser"
    /\ last.arg.PlexUserID = IDLetterS
    /\ (userPrefix \o allUsers) \in DOMAIN db
    /\ appSecret \in DOMAIN db

\* the stored records that decode as users, by engine key
UserRecords(d) == {k \in DOMAIN d : d[k][1] = "json" /\ JsonHas(d[k][2], "plexUserID")}

(* C13: after any SaveUser or SaveUsers call, GetUser of every id saved so  *)
(* far returns the record of the most recent save of that id, and no two    *)
(* stored records carry the same PlexUserID.                                *)
C13_LastWriteWins ==
    [][last'.op \in {"SaveUser", "SaveUsers"} =>
          LET users == UsersAfter(UsersFound(db), last')
          IN /\ \A id \in DOMAIN users : GetUserResult(db', id) = Found(users[id])
             /\ \A k1, k2 \in UserRecords(db') :
                   k1 # k2 => UnserializeUser(db'[k1]).user.PlexUserID
                                 # UnserializeUser(db'[k2]).user.PlexUserID]_vars

(* C14, as stated: once GetSecret has returned a persisted secret k, or     *)
(* SaveSecret(k) has persisted it, the Store's in-memory Secret is k.       *)
C14_SecretCached ==
    /\ (last.op = "GetSecret" /\ last.ret # NoBytes) => Secret = last.ret
    /\ (last.op = "SaveSecret" /\ last.err = "nil") => Secret = last.arg

(* C14, amended: the in-memory Secret is empty after InitDataStore and is   *)
(* what the caller last assigned to the field; GetSecret, SaveSecret and    *)
(* every other Store method leave it as it is, and SavePlexToken and        *)
(* GetPlexToken work with that field, whatever secret is persisted.         *)
C14_SecretCallerAssigned ==
    /\ (last.op = "InitDataStore") => Secret = NoBytes
    /\ (last.op = "SavePlexToken") => last.err = encrypt(Secret, last.arg).err
    /\ (last.op = "GetPlexToken") =>
          [err |-> last.err, ret |-> last.ret] = GetPlexTokenResult(db, Secret)
    /\ [][IF last'.op = "SetSecret" THEN Secret' = last'.arg
          ELSE IF last'.op = "InitDataStore" THEN Secret' \in {Secret, NoBytes}
          ELSE Secret' = Secret]_vars

\* GetSecret has returned the persisted secret and the slot holds another value
C14_Witness ==
    /\ last.op = "GetSecret"
    /\ last.ret = Key1
    /\ Secret # Key1

(* C15: when encrypt(Secret, token) fails, as it does with the empty secret *)
(* of a freshly opened Store, SavePlexToken returns that error and the      *)
(* engine holds after the call exactly what it held before.                 *)
C15_EncryptFailureNoWrite ==
    /\ \A token \in Tokens : encrypt(NoBytes, token).err # "nil"
    /\ [][(last'.op = "SavePlexToken" /\ encrypt(Secret, last'.arg).err # "nil") =>
              /\ last'.err = encrypt(Secret, last'.arg).err
              /\ db' = db]_vars

\* SavePlexToken failed to encrypt while an earlier token is stored
C15_Witness ==
    /\ last.op = "SavePlexToken"
    /\ last.err = "EncryptionError"
    /\ plexToken \in DOMAIN db

HasUserPrefix(k) == Len(k) >= Len(userPrefix) /\ SubSeq(k, 1, Len(userPrefix)) = userPrefix

(* C17: every record stored under a key user-<id> decodes to a User whose   *)
(* PlexUserID is id, so GetUser(id) returns a user of that id and           *)
(* GetAllUsers has one entry for every stored record.                       *)
C17_KeyValueAgreement ==
    /\ \A k \in DOMAIN db :
          HasUserPrefix(k) =>
              /\ UnserializeUser(db[k]).err = "nil"
              /\ userPrefix \o UnserializeUser(db[k]).user.PlexUserID = k
    /\ \A id \in IDs :
          GetUserResult(db, id).err = "nil" => GetUserResult(db, id).ret.PlexUserID = id
    /\ Cardinality(DOMAIN GetAllUsersResult(db).ret)
          = Cardinality({k \in DOMAIN db : HasUserPrefix(k)})

\* the last user of the batch whose PlexUserID is id
LastOf(users, id) ==
    users[CHOOSE i \in 1..Len(users) :
              /\ users[i].PlexUserID = id
              /\ \A j \in (i + 1)..Len(users) : users[j].PlexUserID # id]

(* C19: SaveUser and SaveUsers store a user with the empty PlexUserID       *)
(* under the bare key user-, GetUser("") and GetAllUsers return that        *)
(* record, DeleteUser("") refuses and leaves it, DeleteUsers with "" in     *)
(* its batch removes it, and no other call removes it.                      *)
C19_EmptyIDAsymmetry ==
    [][/\ (last'.op = "SaveUser" /\ last'.arg.PlexUserID = EmptyID) =>
              /\ last'.err = "nil"
              /\ db'[userPrefix] = Serialize(last'.arg).out
              /\ GetUserResult(db', EmptyID) = Found(last'.arg)
              /\ GetAllUsersResult(db').ret[EmptyID] = last'.arg
       /\ (last'.op = "SaveUsers" /\ last'.err = "nil"
              /\ \E i \in 1..Len(last'.arg) : last'.arg[i].PlexUserID = EmptyID) =>
              /\ db'[userPrefix] = Serialize(LastOf(last'.arg, EmptyID)).out
              /\ GetUserResult(db', EmptyID) = Found(LastOf(last'.arg, EmptyID))
              /\ GetAllUsersResult(db').ret[EmptyID] = LastOf(last'.arg, EmptyID)
       /\ (last'.op = "DeleteUser" /\ last'.arg = EmptyID) =>
              /\ last'.err = "id is required"
              /\ db' = db
       /\ (last'.op = "DeleteUsers" /\ EmptyID \in Range(last'.arg)) =>
              userPrefix \notin DOMAIN db'
       /\ (userPrefix \in DOMAIN db /\ userPrefix \notin DOMAIN db') =>
              /\ last'.op = "DeleteUsers"
              /\ EmptyID \in Range(last'.arg)]_vars

\* a batch of two has stored the record of the empty id through a prefix
\* array with spare capacity
C19_Witness ==
    /\ last.op = "SaveUsers"
    /\ last.err = "nil"
    /\ Len(last.arg) = 2
    /\ last.arg[1].PlexUserID = EmptyID
    /\ userPrefix \in DOMAIN db
    /\ Len(userPrefixArr) > Len(userPrefix)

\* the keys of the entity a call is about
OwnKeys(call) ==
    CASE call.op = "SaveSecret" -> {appSecret}
      [] call.op = "SavePlexToken" -> {plexToken}
      [] call.op \in {"SavePlexPin", "ClearPlexPin"} -> {plexPin}
      [] call.op = "SavePlexServer" -> {plexServer}
      [] call.op = "SaveUser" -> {userPrefix \o call.arg.PlexUserID}
      [] call.op = "DeleteUser" -> {userPrefix \o call.arg}
      [] call.op = "SaveUsers" -> {userPrefix \o u.PlexUserID : u \in Range(call.arg)}
      [] call.op = "DeleteUsers" -> {userPrefix \o id : id \in Range(call.arg)}
      [] OTHER -> {}

\* the keys whose presence or value differs between engine contents d and e
Changed(d, e) ==
    {k \in DOMAIN d \cup DOMAIN e :
        IF k \in DOMAIN d /\ k \in DOMAIN e THEN d[k] # e[k] ELSE TRUE}

(* C18: every call changes only keys of its own entity: the write of a      *)
(* singleton only that singleton's key, SaveUser and DeleteUser only        *)
(* user-<id>, SaveUsers and DeleteUsers only the keys user-<id> of the ids   *)
(* in the batch, and the reads and GetAllUsers no key at all.               *)
C18_EntityIsolation ==
    [][Changed(db, db') \subseteq OwnKeys(last')]_vars

(* C16: GetAllUsers visits only the entries whose key starts with user-:    *)
(* it returns no error while every such record decodes, and its result has  *)
(* exactly the users decoded from those entries, whatever else the engine   *)
(* holds after the user-key range.                                          *)
C16_ScanBoundedByPrefix ==
    last.op = "GetAllUsers" =>
        LET prefixed == {k \in DOMAIN db : HasUserPrefix(k)}
        IN /\ (\A k \in prefixed : UnserializeUser(db[k]).err = "nil") => last.err = "nil"
           /\ DOMAIN last.ret = {UnserializeUser(db[k]).user.PlexUserID : k \in prefixed}

(* C20: the verbosity flag is false in every reachable state, whatever      *)
(* InitDataStore is called with and however often; so no verbose branch     *)
(* has printed anything, and neither the decrypted token nor the cipher     *)
(* text has been printed.                                                   *)
C20_NeverVerbose ==
    /\ isVerbose = FALSE
    /\ verboseOut = {}
    /\ \A token \in Tokens : <<"Your plex token is", token>> \notin verboseOut

\* the datastore was opened again with verbosity asked for, a token stored
C20_Witness ==
    /\ last.op = "InitDataStore"
    /\ last.arg = TRUE
    /\ last.err = "nil"
    /\ plexToken \in DOMAIN db

\* what GetUser returns when it reads the key k on engine contents d
ReadUserAt(d, k) ==
    IF k \in DOMAIN d THEN Found(UnserializeUser(d[k]).user)
    ELSE [err |-> "ErrKeyNotFound", ret |-> ZeroUser]

(* C12: with callers that use different plexUserIDs, a call that returns    *)
(* has read or written only the key user-<its own id>: SaveUser has put     *)
(* its record there, DeleteUser has removed that key, neither has changed   *)
(* another key, and GetUser returns what that key held when its             *)
(* transaction started or holds now; so the calls are equivalent to the     *)
(* same calls in some serial order.                                         *)
C12_ConcurrentCallsSerial ==
    [][\A c \in Callers :
          (calls[c].pc # "idle" /\ calls'[c].pc = "idle") =>
              LET own == userPrefix \o calls[c].id
              IN /\ Changed(db, db') \subseteq {own}
                 /\ calls[c].op = "SaveUser" =>
                        /\ last'.err = "nil"
                        /\ own \in DOMAIN db'
                        /\ db'[own] = Serialize(calls[c].user).out
                 /\ calls[c].op = "DeleteUser" =>
                        /\ last'.err = "nil"
                        /\ own \notin DOMAIN db'
                 /\ calls[c].op = "GetUser" =>
                        [err |-> last'.err, ret |-> last'.ret]
                            \in {ReadUserAt(calls[c].snap, own), ReadUserAt(db, own)}]_vars

====
